---- MODULE Spec2Model ----
(***************************************************************************)
(* The AMQP session layer of azure-servicebus' _pyamqp:                    *)
(*   sdk/servicebus/azure-servicebus/azure/servicebus/_pyamqp/aio/         *)
(*   _session_async.py, class Session.                                     *)
(* One action per Session method / frame handler.  The Connection, the     *)
(* frame codec and the Link classes are collaborators outside that file:   *)
(* the model records what the Session hands to them (frames, close         *)
(* requests, method calls) and draws what they hand back from small sets.  *)
(***************************************************************************)
EXTENDS Integers, Sequences, FiniteSets, TLC

\* ------------------------------------------------------------------ bounds
MaxPayload == 3      \* longest payload of a delivery, in bytes
MaxHandle == 3       \* largest handle_max either side configures
MaxWindow == 2       \* largest window a Begin/Flow frame or the constructor carries
MaxSends == 2        \* deliveries the session transmits before the model stops sending
MaxRecvs == 3        \* Transfer frames the peer sends before the model stops receiving
MaxEnds == 2
MaxTime == 3
MaxWait == 2         \* End frames of one mapping that are counted

\* --------------------------------------------------------- program constants
FrameHeaderSize == 8 \* "header (8 bytes)"
None == -1           \* Python's None in an Optional[int] field
RemoteMaxFrameSize == 12   \* connection._remote_max_frame_size
PeerFirstId == 5     \* next_outgoing_id of the peer's Begin

LinkNames == {"L1", "L2"}
Roles == {"Sender", "Receiver"}

\* SessionState (constants.py, used by name in _session_async.py)
UNMAPPED == "UNMAPPED"
BEGIN_SENT == "BEGIN_SENT"
BEGIN_RCVD == "BEGIN_RCVD"
MAPPED == "MAPPED"
END_SENT == "END_SENT"
END_RCVD == "END_RCVD"
DISCARDING == "DISCARDING"

\* SessionTransferState; PENDING is a Delivery's state before the session acts
PENDING == "PENDING"
OKAY == "OKAY"
BUSY == "BUSY"
ERROR == "ERROR"

VARIABLES
  state, handle_max, remote_channel, allow_pipelined_open,
  next_outgoing_id, next_incoming_id,
  incoming_window, outgoing_window, target_incoming_window,
  remote_incoming_window, remote_outgoing_window,
  links,            \* self.links: key -> link id
  output_handles,   \* self._output_handles: local handle -> link id
  input_handles,    \* self._input_handles: remote handle -> link id
  linkobjs,         \* the Link objects, by id: [name, role, handle, closed]
  \* what the last call did, as its caller and the collaborators see it
  op,               \* the call and its arguments
  out,              \* frames handed to connection._process_outgoing_frame
  raised,           \* the exception that left the call, or "none"
  calls,            \* calls made on Link objects: <<link id, method, argument>>
                    \* (frame handlers and detach; not _set_state's notifications)
  closes,           \* errors passed to connection.close
  transfer_state,   \* delivery.transfer_state when _outgoing_transfer returned
  events,           \* the frames, Link calls and _set_state calls, in order
  ends_sent,        \* End frames handed over since the session last became
                    \* MAPPED; None outside a mapping
  begin_sent,       \* whether a Begin frame was ever handed over
  begin_rcvd,       \* whether _incoming_begin ever ran
  \* history of the sends since the remote window was last set by the peer
  sent_okay,        \* _outgoing_transfer calls that ended OKAY
  sent_split,       \* whether one of them took more than one frame
  window_base,      \* remote_incoming_window as the peer last set it
  id_base,          \* next_outgoing_id when the peer last set the window
  \* _outgoing_transfer coroutines that run interleaved on the event loop
  tasks,            \* per coroutine: where it is suspended, and its locals
  wire,             \* the Transfer frames they handed over, in order
  started,          \* how many of their sends have started
  \* coroutines suspended in an await of _incoming_attach and of end()
  attaching,        \* the _incoming_attach awaiting new_link._incoming_attach
  ender,            \* the end() inside _wait_for_response
  inbound,          \* End frames of the peer the connection has not delivered
  peer,             \* whether the peer answers the session's End
  clock             \* time.time()

session == <<state, handle_max, remote_channel, allow_pipelined_open,
             next_outgoing_id, next_incoming_id,
             incoming_window, outgoing_window, target_incoming_window,
             remote_incoming_window, remote_outgoing_window>>
maps == <<links, output_handles, input_handles, linkobjs>>
observed == <<op, out, raised, calls, closes, transfer_state, events, ends_sent,
              begin_sent, begin_rcvd>>
history == <<sent_okay, sent_split, window_base, id_base>>
suspended == <<attaching, ender, inbound, peer, clock>>
coroutines == <<tasks, wire, started, suspended>>
vars == <<session, maps, observed, history, coroutines>>

Min(a, b) == IF a < b THEN a ELSE b

\* the coroutines that may be inside _outgoing_transfer at the same time
Senders == {1, 2}

\* a coroutine that is not inside _outgoing_transfer
IdleTask ==
  [pc |-> "idle", delivery |-> 0, payload_size |-> 0, available_frame_size |-> 0,
   start_idx |-> 0, remaining_payload_cnt |-> 0, handle |-> None]

\* no end() is waiting
IdleEnder ==
  [pc |-> "idle", bounded |-> FALSE, wait |-> 0, timeout |-> None, from |-> UNMAPPED]

EmptyMap == [x \in {} |-> 0]
Put(f, k, v) == [x \in (DOMAIN f) \cup {k} |-> IF x = k THEN v ELSE f[x]]
Values(f) == {f[x] : x \in DOMAIN f}

\* what a call does, as events: a frame handed to the connection, a call on a
\* Link, a _set_state
RECURSIVE FrameEvents(_)
FrameEvents(frames) ==
  IF frames = <<>> THEN <<>>
  ELSE <<<<"frame", Head(frames)>>>> \o FrameEvents(Tail(frames))

RECURSIVE CallEvents(_)
CallEvents(lc) ==
  IF lc = <<>> THEN <<>> ELSE <<<<"call", Head(lc)>>>> \o CallEvents(Tail(lc))

StateEvent(st) == <<"state", st>>

\* the events of one kind, in order, without the tag
RECURSIVE OfKind(_, _)
OfKind(kind, ev) ==
  IF ev = <<>> THEN <<>>
  ELSE (IF Head(ev)[1] = kind THEN <<Head(ev)[2]>> ELSE <<>>) \o OfKind(kind, Tail(ev))

RECURSIVE EndCount(_)
EndCount(frames) ==
  IF frames = <<>> THEN 0
  ELSE (IF Head(frames).type = "end" THEN 1 ELSE 0) + EndCount(Tail(frames))

\* ends_sent after the call o that hands `frames` over: 0 when the call makes
\* the session MAPPED (_incoming_begin from BEGIN_SENT or UNMAPPED), None once
\* the session has been UNMAPPED, counted up to MaxEnds otherwise
EndsInMapping(o, frames) ==
  IF o.name = "incoming_begin" /\ state \in {BEGIN_SENT, UNMAPPED} THEN 0
  ELSE IF ends_sent = None \/ state = UNMAPPED THEN None
  ELSE Min(ends_sent + EndCount(frames), MaxEnds)

RECURSIVE BeginCount(_)
BeginCount(frames) ==
  IF frames = <<>> THEN 0
  ELSE (IF Head(frames).type = "begin" THEN 1 ELSE 0) + BeginCount(Tail(frames))

\* a call's observable outcome, from its events ev in order
Happened(o, ev, exc, cl, ts) ==
  /\ op' = o
  /\ events' = ev
  /\ out' = OfKind("frame", ev)
  /\ calls' = OfKind("call", ev)
  /\ raised' = exc
  /\ closes' = cl
  /\ transfer_state' = ts
  /\ ends_sent' = EndsInMapping(o, OfKind("frame", ev))
  /\ begin_sent' = (begin_sent \/ BeginCount(OfKind("frame", ev)) > 0)
  /\ begin_rcvd' = (begin_rcvd \/ o.name = "incoming_begin")

\* a call's observable outcome: frames handed over, then calls on Links
Did(o, frames, exc, lc, cl, ts) ==
  Happened(o, FrameEvents(frames) \o CallEvents(lc), exc, cl, ts)

\* ------------------------------------------------------------ construction
\* Session(connection, channel, next_outgoing_id=noid, incoming_window=window,
\* outgoing_window=window, allow_pipelined_open=pipelined, handle_max=MaxHandle)
Constructed(noid, window, pipelined) ==
  /\ state = UNMAPPED
  /\ handle_max = MaxHandle
  /\ remote_channel = None
  /\ next_incoming_id = None
  /\ next_outgoing_id = noid
  /\ incoming_window = window
  /\ outgoing_window = window
  /\ allow_pipelined_open = pipelined
  /\ target_incoming_window = incoming_window
  /\ remote_incoming_window = 0
  /\ remote_outgoing_window = 0
  /\ links = EmptyMap
  /\ output_handles = EmptyMap
  /\ input_handles = EmptyMap
  /\ linkobjs = <<>>
  /\ op = [name |-> "__init__"]
  /\ out = <<>>
  /\ raised = "none"
  /\ calls = <<>>
  /\ closes = <<>>
  /\ transfer_state = PENDING
  /\ events = <<>>
  /\ ends_sent = None
  /\ begin_sent = FALSE
  /\ begin_rcvd = FALSE
  /\ sent_okay = 0
  /\ sent_split = FALSE
  /\ window_base = 0
  /\ id_base = noid
  /\ tasks = [k \in Senders |-> IdleTask]
  /\ wire = <<>>
  /\ started = 0
  /\ attaching = <<>>
  /\ ender = IdleEnder
  /\ inbound = 0
  /\ peer = "silent"
  /\ clock = 0

\* the keyword defaults: next_outgoing_id 0, both windows 1, pipelined open allowed
InitDefault == Constructed(0, 1, TRUE)

Init == InitDefault \/ Constructed(1, MaxWindow, FALSE)

\* -------------------------------------------------------------- link objects
\* The Link classes (SenderLink, ReceiverLink) live outside _session_async.py.
\* A Link is what the Session stores and calls: its name, role, local handle
\* and the _is_closed flag the Session reads.
NewLink(name, role, handle) ==
  [name |-> name, role |-> role, handle |-> handle, closed |-> FALSE]

\* keys of self.links: link.name is a str, frame[0] of an Attach is bytes
StrKey(name) == <<"str", name>>
BytesKey(name) == <<"bytes", name>>

\* the ids in S, ascending, as a sequence (dict iteration in insertion order)
RECURSIVE Ascending(_)
Ascending(S) ==
  IF S = {} THEN <<>>
  ELSE LET m == CHOOSE x \in S : \A y \in S : x <= y
       IN <<m>> \o Ascending(S \ {m})

\* the call of `method` on each link of ids, in order
RECURSIVE LinkCalls(_, _, _)
LinkCalls(ids, method, arg) ==
  IF ids = <<>> THEN <<>>
  ELSE <<<<Head(ids), method, arg>>>> \o LinkCalls(Tail(ids), method, arg)

\* for _, link in self.links.items(): await link.detach()
DetachAll(arg) == LinkCalls(Ascending(Values(links)), "detach", arg)

\* ------------------------------------------------------- _get_next_output_handle
\* (mutant) the largest free handle is taken
GetNextOutputHandleLast ==
  LET free == {i \in 1..(handle_max - 1) : i \notin DOMAIN output_handles}
  IN IF Cardinality(DOMAIN output_handles) >= handle_max
     THEN [exc |-> "ValueError", handle |-> None]
     ELSE IF free = {}
     THEN [exc |-> "StopIteration", handle |-> None]
     ELSE [exc |-> "none", handle |-> CHOOSE i \in free : \A j \in free : i >= j]

\* [exc, handle]: ValueError when len(_output_handles) >= handle_max; otherwise
\* next(i for i in range(1, handle_max) if i not in _output_handles), which
\* raises StopIteration when the generator is empty.
GetNextOutputHandle ==
  LET free == {i \in 1..(handle_max - 1) : i \notin DOMAIN output_handles}
  IN IF Cardinality(DOMAIN output_handles) >= handle_max
     THEN [exc |-> "ValueError", handle |-> None]
     ELSE IF free = {}
     THEN [exc |-> "StopIteration", handle |-> None]
     ELSE [exc |-> "none", handle |-> CHOOSE i \in free : \A j \in free : i <= j]

\* ------------------------------------------------------------------- frames
\* _outgoing_begin in session state st, with self.handle_max = hm
BeginFrame(st, hm) ==
  [type |-> "begin",
   remote_channel |-> IF st = BEGIN_RCVD THEN remote_channel ELSE None,
   next_outgoing_id |-> next_outgoing_id,
   outgoing_window |-> outgoing_window,
   incoming_window |-> incoming_window,
   handle_max |-> hm]

EndFrame(error) == [type |-> "end", error |-> error]

\* _outgoing_flow(frame=None) with self.next_incoming_id = nii and
\* self.incoming_window = iw: the session-level fields of a Flow
FlowFrame(nii, iw) ==
  [type |-> "flow",
   next_incoming_id |-> nii,
   incoming_window |-> iw,
   next_outgoing_id |-> next_outgoing_id,
   outgoing_window |-> outgoing_window,
   handle |-> None]

TransferFrame(handle, delivery_id, more, payload) ==
  [type |-> "transfer", handle |-> handle, delivery_id |-> delivery_id,
   more |-> more, payload |-> payload]

\* a Begin frame of the peer: its channel for this session is 0, its
\* outgoing_window is its incoming_window + 1
PeerBegin(w, hm) ==
  [remote_channel |-> 0, next_outgoing_id |-> PeerFirstId,
   incoming_window |-> w, outgoing_window |-> w + 1, handle_max |-> hm]

\* ------------------------------------------------------------------- begin
\* (mutant) the pipelined-open flag is read the wrong way round
PipelinedOpenAllowed(wait) == ~wait /\ allow_pipelined_open

\* "if wait: ... elif not self.allow_pipelined_open: raise ValueError"
PipelinedOpenRefused(wait) == ~wait /\ ~allow_pipelined_open

\* begin(wait): _outgoing_begin, BEGIN_SENT, then either the poll of
\* _wait_for_response(wait, BEGIN_SENT), which ends at once, or the
\* pipelined-open check.
Begin(wait) ==
  /\ state' = BEGIN_SENT
  /\ Happened([name |-> "begin", wait |-> wait],
              FrameEvents(<<BeginFrame(state, handle_max)>>)
                \o <<StateEvent(BEGIN_SENT)>>,
              IF PipelinedOpenRefused(wait) THEN "ValueError" ELSE "none",
              <<>>, PENDING)
  /\ UNCHANGED <<handle_max, remote_channel, allow_pipelined_open, next_outgoing_id,
                 next_incoming_id, incoming_window, outgoing_window,
                 target_incoming_window, remote_incoming_window,
                 remote_outgoing_window, maps, history, coroutines>>

\* (mutant) an UNMAPPED session takes the peer's Begin as the answer too
AwaitsBeginOrUnmapped(st) == st \in {BEGIN_SENT, UNMAPPED}

\* "if self.state == SessionState.BEGIN_SENT": the peer's Begin answers ours
AwaitsBegin(st) == st = BEGIN_SENT

\* _incoming_begin(frame), frame the peer's Begin with incoming_window w and
\* handle_max hm
IncomingBegin(w, hm) ==
  LET frame == PeerBegin(w, hm) IN
  /\ handle_max' = frame.handle_max
  /\ next_incoming_id' = frame.next_outgoing_id
  /\ remote_incoming_window' = frame.incoming_window
  /\ remote_outgoing_window' = frame.outgoing_window
  /\ remote_channel' = IF AwaitsBegin(state) THEN frame.remote_channel ELSE remote_channel
  /\ state' = IF state \in {BEGIN_SENT, UNMAPPED} THEN MAPPED ELSE state
  /\ Happened([name |-> "incoming_begin", frame |-> frame],
              IF AwaitsBegin(state) THEN <<StateEvent(MAPPED)>>
              ELSE IF state = UNMAPPED
              THEN <<StateEvent(BEGIN_RCVD)>>
                   \o FrameEvents(<<BeginFrame(BEGIN_RCVD, frame.handle_max)>>)
                   \o <<StateEvent(MAPPED)>>
              ELSE <<>>,
              "none", <<>>, PENDING)
  /\ sent_okay' = 0
  /\ sent_split' = FALSE
  /\ window_base' = frame.incoming_window
  /\ id_base' = next_outgoing_id
  /\ UNCHANGED <<allow_pipelined_open, next_outgoing_id, incoming_window,
                 outgoing_window, target_incoming_window, maps, coroutines>>

\* ------------------------------------------------------------------ end
\* The body of end(error, wait=False) run in session state st; fault names the
\* step that raises ("send": the connection refuses the End frame, "detach": a
\* Link's detach raises), caught by the except clause, which sets UNMAPPED.
\* "notify": a Link's _on_session_state_change raises during this call, in the
\* _set_state of the try block and again in the _set_state of the except clause.
\* (mutant) a DISCARDING session sends the End frame too
EndSendsUnlessUnmapped(st) == st # UNMAPPED

\* "if self.state not in [SessionState.UNMAPPED, SessionState.DISCARDING]"
EndSends(st) == st \notin {UNMAPPED, DISCARDING}

\* (mutant) end() without an error leaves the session UNMAPPED
EndStateUnmapped(error) == IF error # "None" THEN DISCARDING ELSE UNMAPPED

\* new_state = SessionState.DISCARDING if error else SessionState.END_SENT
EndState(error) == IF error # "None" THEN DISCARDING ELSE END_SENT

\* the exception that leaves end(): one raised inside the except clause
EndRaises(fault) == IF fault = "notify" THEN "LinkError" ELSE "none"

EndOutcome(st, error, fault) ==
  LET frames == IF EndSends(st) /\ fault # "send" THEN <<EndFrame(error)>> ELSE <<>>
      dets == IF fault = "send" THEN <<>>
              ELSE IF fault = "detach" THEN SubSeq(DetachAll("None"), 1, 1)
              ELSE DetachAll("None")
  IN [state |-> IF fault # "none" THEN UNMAPPED ELSE EndState(error),
      out |-> frames, calls |-> dets, raised |-> EndRaises(fault),
      events |-> FrameEvents(frames) \o CallEvents(dets)
                 \o (IF fault \in {"none", "notify"}
                     THEN <<StateEvent(EndState(error))>> ELSE <<>>)
                 \o (IF fault # "none" THEN <<StateEvent(UNMAPPED)>> ELSE <<>>)]

EndFaults(st) ==
  {"none"} \cup (IF EndSends(st) THEN {"send"} ELSE {})
           \cup (IF DOMAIN links # {} THEN {"detach", "notify"} ELSE {})

\* how many end() calls in succession this one makes, counted from a call on a
\* MAPPED session; 0 outside such a run or when a call passes an error
EndsInSuccession(error) ==
  IF error # "None" THEN 0
  ELSE IF state = MAPPED THEN 1
  ELSE IF op.name = "end" /\ op.nth = 1 THEN 2
  ELSE 0

End(error, fault) ==
  LET r == EndOutcome(state, error, fault)
  IN /\ fault \in EndFaults(state)
     /\ state' = r.state
     /\ Happened([name |-> "end", error |-> error, fault |-> fault, from |-> state,
                  nth |-> EndsInSuccession(error)],
                 r.events, r.raised, <<>>, PENDING)
     /\ UNCHANGED <<handle_max, remote_channel, allow_pipelined_open, next_outgoing_id,
                    next_incoming_id, incoming_window, outgoing_window,
                    target_incoming_window, remote_incoming_window,
                    remote_outgoing_window, maps, history, coroutines>>

\* (mutant) an End received after this side sent its own End is answered too
EndAnsweredAfterSent(st) == st \notin {END_RCVD, DISCARDING}

\* "if self.state not in [END_RCVD, END_SENT, DISCARDING]"
EndAnswered(st) == st \notin {END_RCVD, END_SENT, DISCARDING}

\* what _incoming_end does in session state st, in order
EndReceived(st) ==
  (IF EndAnswered(st)
   THEN <<StateEvent(END_RCVD)>> \o CallEvents(DetachAll("None"))
        \o FrameEvents(<<EndFrame("None")>>)
   ELSE <<>>) \o <<StateEvent(UNMAPPED)>>

\* _incoming_end(frame)
IncomingEnd ==
  /\ state' = UNMAPPED
  /\ Happened([name |-> "incoming_end", from |-> state], EndReceived(state),
              "none", <<>>, PENDING)
  /\ UNCHANGED <<handle_max, remote_channel, allow_pipelined_open, next_outgoing_id,
                 next_incoming_id, incoming_window, outgoing_window,
                 target_incoming_window, remote_incoming_window,
                 remote_outgoing_window, maps, history, coroutines>>

\* ------------------------------------------- end(wait) and _wait_for_response
\* (mutant) the poll waits for END_RCVD
WaitOverAtEndRcvd(st) == st = END_RCVD

\* "while self.state != end_state", end() passing SessionState.UNMAPPED
WaitOver(st) == st = UNMAPPED

\* "if time.time() >= timeout: break"
TimedOut(now, timeout) == now >= timeout

\* end(error, wait) with wait True (bounded FALSE) or a number of seconds
\* (bounded TRUE), up to its first await in _wait_for_response; answers: the
\* peer will answer an End of the session with its own End
EndWait(error, bounded, wait, fault, answers) ==
  LET r == EndOutcome(state, error, fault)
  IN /\ ender.pc = "idle"
     /\ fault \in EndFaults(state) \cap {"none", "send"}
     /\ IF bounded THEN wait \in 1..MaxWait /\ clock + wait <= MaxTime ELSE wait = 0
     /\ state' = r.state
     /\ Happened([name |-> "end", error |-> error, fault |-> fault, from |-> state,
                  nth |-> EndsInSuccession(error)],
                 r.events, r.raised, <<>>, PENDING)
     /\ ender' = [pc |-> IF fault = "none" THEN "listen" ELSE "returned",
                  bounded |-> bounded, wait |-> wait, timeout |-> None,
                  from |-> state]
     /\ peer' = IF answers /\ r.out # <<>> THEN "asked" ELSE "silent"
     /\ UNCHANGED <<handle_max, remote_channel, allow_pipelined_open, next_outgoing_id,
                    next_incoming_id, incoming_window, outgoing_window,
                    target_incoming_window, remote_incoming_window,
                    remote_outgoing_window, maps, history, tasks, wire, started,
                    attaching, inbound, clock>>

\* the peer answers the End it received; its End waits in the connection
PeerEnd ==
  /\ peer = "asked"
  /\ peer' = "answered"
  /\ inbound' = inbound + 1
  /\ UNCHANGED <<session, maps, observed, history, tasks, wire, started, attaching,
                 ender, clock>>

\* "await self._connection.listen(wait=False)" in _wait_for_response: the
\* connection delivers a waiting End to _incoming_end; then "timeout =
\* time.time() + wait" after the first listen, and the loop's tests
Listen ==
  LET deliver == inbound > 0
      st == IF deliver THEN UNMAPPED ELSE state
      timeout == IF ender.bounded /\ ender.timeout = None
                 THEN clock + ender.wait ELSE ender.timeout
      done == WaitOver(st) \/ (ender.bounded /\ TimedOut(clock, timeout))
  IN /\ ender.pc = "listen"
     /\ state' = st
     /\ inbound' = IF deliver THEN inbound - 1 ELSE inbound
     /\ IF deliver
        THEN Happened([name |-> "incoming_end", from |-> state], EndReceived(state),
                      "none", <<>>, PENDING)
        ELSE Happened([name |-> "listen"], <<>>, "none", <<>>, PENDING)
     /\ ender' = [ender EXCEPT !.pc = IF done THEN "returned" ELSE "sleep",
                               !.timeout = timeout]
     /\ UNCHANGED <<handle_max, remote_channel, allow_pipelined_open, next_outgoing_id,
                    next_incoming_id, incoming_window, outgoing_window,
                    target_incoming_window, remote_incoming_window,
                    remote_outgoing_window, maps, history, tasks, wire, started,
                    attaching, peer, clock>>

\* "await asyncio.sleep(self.idle_wait_time)": time passes
Sleep ==
  /\ ender.pc = "sleep"
  /\ ender' = [ender EXCEPT !.pc = "listen"]
  /\ clock' = Min(clock + 1, MaxTime)
  /\ UNCHANGED <<session, maps, observed, history, tasks, wire, started, attaching,
                 inbound, peer>>

\* end() has returned to its caller
EndReturns ==
  /\ ender.pc = "returned"
  /\ ender' = IdleEnder
  /\ UNCHANGED <<session, maps, observed, history, tasks, wire, started, attaching,
                 inbound, peer, clock>>

\* _on_connection_state_change, with the connection in state cstate
OnConnectionStateChange(cstate) ==
  /\ state' = IF cstate \in {"CLOSE_RCVD", "END"} /\ state \notin {DISCARDING, UNMAPPED}
              THEN DISCARDING ELSE state
  /\ Happened([name |-> "on_connection_state_change", cstate |-> cstate],
              IF cstate \in {"CLOSE_RCVD", "END"} /\ state \notin {DISCARDING, UNMAPPED}
              THEN <<StateEvent(DISCARDING)>> ELSE <<>>,
              "none", <<>>, PENDING)
  /\ UNCHANGED <<handle_max, remote_channel, allow_pipelined_open, next_outgoing_id,
                 next_incoming_id, incoming_window, outgoing_window,
                 target_incoming_window, remote_incoming_window,
                 remote_outgoing_window, maps, history, coroutines>>

\* ------------------------------------------------- create_*_link (local attach)
\* create_sender_link / create_receiver_link: allocate a handle, build the Link,
\* register it under its name and handle.  role is the Link's own role.
CreateLink(name, role) ==
  LET h == GetNextOutputHandle
      id == Len(linkobjs) + 1
  IN /\ IF h.exc = "none"
        THEN /\ linkobjs' = Append(linkobjs, NewLink(name, role, h.handle))
             /\ links' = Put(links, StrKey(name), id)
             /\ output_handles' = Put(output_handles, h.handle, id)
        ELSE UNCHANGED <<linkobjs, links, output_handles>>
     /\ Did([name |-> "create_link", link |-> name, role |-> role],
            <<>>, h.exc, <<>>, <<>>, PENDING)
     /\ UNCHANGED <<session, input_handles, history, coroutines>>

\* the peer has begun the session: the connection routes a channel's frames to
\* the session only after the Begin that maps the channel
BeginReceived == next_incoming_id # None

RemoteHandles == {0, 1}

\* ------------------------------------------------------------ _incoming_attach
\* (mutant) the new Link takes the role the frame carries
PeerLinkRoleSame(role) == role

\* "if frame[2] == Role.Sender: ReceiverLink ... else: SenderLink"
PeerLinkRole(role) == IF role = "Sender" THEN "Receiver" ELSE "Sender"

\* frame = (name, handle, role); verr: the Link's _incoming_attach raises ValueError
IncomingAttach(name, rhandle, role, verr) ==
  LET id == Len(linkobjs) + 1
      h == GetNextOutputHandle
      o == [name |-> "incoming_attach", link |-> name, handle |-> rhandle,
            role |-> role, verr |-> verr]
  IN /\ BeginReceived
     /\ IF StrKey(name) \in DOMAIN links
        THEN \* the Attach confirms a link of this name
             LET l == links[StrKey(name)]
             IN /\ input_handles' = Put(input_handles, rhandle, l)
                /\ Did(o, <<>>, "none",
                       <<<<l, "_incoming_attach", "None">>>> \o
                         (IF verr THEN <<<<l, "detach", "None">>>> ELSE <<>>),
                       <<>>, PENDING)
                /\ UNCHANGED <<links, output_handles, linkobjs>>
        ELSE IF h.exc = "ValueError"
        THEN \* the handler's self.links[name].detach(...) raises KeyError
             /\ Did(o, <<>>, "KeyError", <<>>, <<>>, PENDING)
             /\ UNCHANGED maps
        ELSE IF h.exc = "StopIteration"
        THEN \* StopIteration leaving a coroutine becomes RuntimeError
             /\ Did(o, <<>>, "RuntimeError", <<>>, <<>>, PENDING)
             /\ UNCHANGED maps
        ELSE IF verr
        THEN \* raised inside the except KeyError clause: not caught
             /\ Did(o, <<>>, "ValueError", <<<<id, "_incoming_attach", "None">>>>,
                    <<>>, PENDING)
             /\ UNCHANGED maps
        ELSE /\ linkobjs' = Append(linkobjs,
                   NewLink(name, PeerLinkRole(role), h.handle))
             /\ links' = Put(links, BytesKey(name), id)
             /\ output_handles' = Put(output_handles, h.handle, id)
             /\ input_handles' = Put(input_handles, rhandle, id)
             /\ Did(o, <<>>, "none", <<<<id, "_incoming_attach", "None">>>>,
                    <<>>, PENDING)
     /\ UNCHANGED <<session, history, coroutines>>

\* _incoming_attach for a name the lookup misses, up to its await of
\* new_link._incoming_attach(frame): the handle is allocated and the Link built
AttachAllocate(name, rhandle, role) ==
  LET id == Len(linkobjs) + 1
      h == GetNextOutputHandle
  IN /\ BeginReceived
     /\ attaching = <<>>
     /\ StrKey(name) \notin DOMAIN links
     /\ h.exc = "none"
     /\ linkobjs' = Append(linkobjs, NewLink(name, PeerLinkRole(role), h.handle))
     /\ attaching' = <<[name |-> name, rhandle |-> rhandle, handle |-> h.handle,
                        id |-> id]>>
     /\ Did([name |-> "incoming_attach", link |-> name, handle |-> rhandle,
             role |-> role, verr |-> FALSE],
            <<>>, "none", <<<<id, "_incoming_attach", "None">>>>, <<>>, PENDING)
     /\ UNCHANGED <<session, links, output_handles, input_handles, history, tasks,
                    wire, started, ender, inbound, peer, clock>>

\* the suspended _incoming_attach is resumed and registers the Link
AttachRegister ==
  LET a == attaching[1]
  IN /\ attaching # <<>>
     /\ links' = Put(links, BytesKey(a.name), a.id)
     /\ output_handles' = Put(output_handles, a.handle, a.id)
     /\ input_handles' = Put(input_handles, a.rhandle, a.id)
     /\ attaching' = <<>>
     /\ Did([name |-> "attach_resumed", link |-> a.name, handle |-> a.rhandle],
            <<>>, "none", <<>>, <<>>, PENDING)
     /\ UNCHANGED <<session, linkobjs, history, tasks, wire, started, ender, inbound,
                    peer, clock>>

\* (mutant) the frame's handle is looked up among the local handles
InputLinkByOutput(rhandle) ==
  IF rhandle \in DOMAIN output_handles THEN output_handles[rhandle] ELSE None

\* self._input_handles[handle]: the link id, or None where Python raises KeyError
InputLink(rhandle) ==
  IF rhandle \in DOMAIN input_handles THEN input_handles[rhandle] ELSE None

\* ------------------------------------------------------------ _incoming_detach
\* The Link's own _incoming_detach completes the detach (sets _is_closed).
IncomingDetach(rhandle) ==
  /\ BeginReceived
  /\ IF InputLink(rhandle) # None
     THEN LET l == InputLink(rhandle)
          IN /\ linkobjs' = [linkobjs EXCEPT ![l].closed = TRUE]
             /\ state' = state
             /\ Did([name |-> "incoming_detach", handle |-> rhandle],
                    <<>>, "none", <<<<l, "_incoming_detach", "None">>>>, <<>>, PENDING)
     ELSE /\ state' = DISCARDING
          /\ linkobjs' = linkobjs
          /\ Happened([name |-> "incoming_detach", handle |-> rhandle],
                      <<StateEvent(DISCARDING)>>, "none",
                      <<"SessionUnattachedHandle">>, PENDING)
  /\ UNCHANGED <<handle_max, remote_channel, allow_pipelined_open, next_outgoing_id,
                 next_incoming_id, incoming_window, outgoing_window,
                 target_incoming_window, remote_incoming_window,
                 remote_outgoing_window, links, output_handles, input_handles,
                 history, coroutines>>

\* -------------------------------------------------------------- _incoming_flow
\* a Flow frame of the peer: its outgoing_window is its incoming_window + 1
PeerFlow(p, w, h) ==
  [next_incoming_id |-> p, incoming_window |-> w,
   next_outgoing_id |-> PeerFirstId, outgoing_window |-> w + 1, handle |-> h]

\* _incoming_flow(frame), frame the peer's Flow with next_incoming_id p,
\* incoming_window w and handle h
IncomingFlow(p, w, h) ==
  LET frame == PeerFlow(p, w, h)
      remote_incoming_id ==
        IF frame.next_incoming_id = None \/ frame.next_incoming_id = 0
        THEN next_outgoing_id ELSE frame.next_incoming_id
      riw == remote_incoming_id + frame.incoming_window - next_outgoing_id
      open == Ascending({output_handles[hd] : hd \in
                  {x \in DOMAIN output_handles :
                     riw > 0 /\ ~linkobjs[output_handles[x]].closed}})
      o == [name |-> "incoming_flow", frame |-> frame]
  IN /\ BeginReceived
     /\ next_incoming_id' = frame.next_outgoing_id
     /\ remote_incoming_window' = riw
     /\ remote_outgoing_window' = frame.outgoing_window
     /\ IF frame.handle # None
        THEN IF InputLink(frame.handle) # None
             THEN Did(o, <<>>, "none",
                      <<<<InputLink(frame.handle), "_incoming_flow", "None">>>>,
                      <<>>, PENDING)
             ELSE Did(o, <<>>, "KeyError", <<>>, <<>>, PENDING)
        ELSE Did(o, <<>>, "none",
                 LinkCalls(open, "_incoming_flow", "None"),
                 <<>>, PENDING)
     /\ sent_okay' = 0
     /\ sent_split' = FALSE
     /\ window_base' = riw
     /\ id_base' = next_outgoing_id
     /\ UNCHANGED <<state, handle_max, remote_channel, allow_pipelined_open,
                    next_outgoing_id, incoming_window, outgoing_window,
                    target_incoming_window, maps, coroutines>>

\* ---------------------------------------------------------- _outgoing_transfer
\* (mutant) the slice takes the byte at j too
SliceThrough(payload, i, j) == SubSeq(payload, i + 1, Min(j + 1, Len(payload)))

\* Python's payload[i:j] for 0 <= i, 0 <= j
Slice(payload, i, j) == SubSeq(payload, i + 1, Min(j, Len(payload)))

\* encoded sizes of a Transfer performative with an empty payload
\* (len(encode_frame(TransferFrame(**delivery.frame))[1]))
Overheads == {1, 2, 3, 4}

AvailableFrameSize(transfer_overhead_size) ==
  RemoteMaxFrameSize - transfer_overhead_size - FrameHeaderSize

\* "while remaining_payload_cnt > available_frame_size" never ends when the
\* frame size is not positive: remaining_payload_cnt does not decrease
NeverEnds(payload_size, available_frame_size) ==
  payload_size > available_frame_size /\ available_frame_size <= 0

\* (mutant) the loop runs while remaining_payload_cnt >= available_frame_size
RECURSIVE FragmentsToEmpty(_, _, _, _)
FragmentsToEmpty(payload, start_idx, remaining_payload_cnt, available_frame_size) ==
  IF remaining_payload_cnt >= available_frame_size
  THEN <<[more |-> TRUE,
          payload |-> SubSeq(payload, start_idx + 1,
                             Min(start_idx + available_frame_size, Len(payload)))]>>
       \o FragmentsToEmpty(payload, start_idx + available_frame_size,
                           remaining_payload_cnt - available_frame_size,
                           available_frame_size)
  ELSE <<[more |-> FALSE, payload |-> SubSeq(payload, start_idx + 1, Len(payload))]>>

\* the frames of the while loop and of "encode the last frame", in order:
\* [more, payload] from start_idx on with remaining_payload_cnt bytes left
RECURSIVE Fragments(_, _, _, _)
Fragments(payload, start_idx, remaining_payload_cnt, available_frame_size) ==
  IF remaining_payload_cnt > available_frame_size
  THEN <<[more |-> TRUE,
          payload |-> Slice(payload, start_idx, start_idx + available_frame_size)]>>
       \o Fragments(payload, start_idx + available_frame_size,
                    remaining_payload_cnt - available_frame_size, available_frame_size)
  ELSE <<[more |-> FALSE, payload |-> Slice(payload, start_idx, Len(payload))]>>

\* (mutant) the window counts Transfer frames instead of deliveries
WindowAfterEachFrame(window, frames) == window - frames

\* TransferFrame(payload=..., **tmp_delivery_frame) for each fragment
RECURSIVE TransferFrames(_, _, _)
TransferFrames(handle, delivery_id, parts) ==
  IF parts = <<>> THEN <<>>
  ELSE <<TransferFrame(handle, delivery_id, Head(parts).more, Head(parts).payload)>>
       \o TransferFrames(handle, delivery_id, Tail(parts))

\* a window after a delivery of `frames` Transfer frames has been handed over
\* ("self.remote_incoming_window -= 1", "self.outgoing_window -= 1")
WindowAfterDelivery(window, frames) == window - 1

\* the payload of n bytes: byte i is i, so that a lost, repeated or misplaced
\* byte shows
RECURSIVE Payload(_)
Payload(n) == IF n = 0 THEN <<>> ELSE Append(Payload(n - 1), n)

\* (mutant) the window test is "remote_incoming_window < 0"
TransmitsAtZero(st, riw) == ~(riw < 0)

\* the transfer_state left by the two leading ifs (ERROR is overwritten by BUSY)
Refused(st, riw) ==
  IF riw <= 0 THEN BUSY ELSE IF st # MAPPED THEN ERROR ELSE PENDING

\* whether the else branch (the send) runs
Transmits(st, riw) == ~(riw <= 0)

\* a SenderLink with local handle `handle` sends a delivery of payload_size bytes;
\* the codec encodes its empty Transfer performative in transfer_overhead_size bytes
OutgoingTransfer(handle, payload_size, transfer_overhead_size) ==
  LET payload == Payload(payload_size)
      size == AvailableFrameSize(transfer_overhead_size)
      o == [name |-> "outgoing_transfer", handle |-> handle, payload |-> payload,
            available_frame_size |-> size]
  IN /\ handle \in DOMAIN output_handles
     /\ linkobjs[output_handles[handle]].role = "Sender"
     /\ next_outgoing_id <= MaxSends
     /\ IF ~Transmits(state, remote_incoming_window)
        THEN /\ Did(o, <<>>, "none", <<>>, <<>>, Refused(state, remote_incoming_window))
             /\ UNCHANGED <<next_outgoing_id, remote_incoming_window, outgoing_window,
                            history>>
        ELSE IF NeverEnds(Len(payload), size)
        THEN /\ Did(o, <<>>, "never returns", <<>>, <<>>,
                    Refused(state, remote_incoming_window))
             /\ UNCHANGED <<next_outgoing_id, remote_incoming_window, outgoing_window,
                            history>>
        ELSE LET parts == TransferFrames(handle, next_outgoing_id,
                                         Fragments(payload, 0, Len(payload), size))
             IN /\ Did(o, parts, "none", <<>>, <<>>, OKAY)
                /\ next_outgoing_id' = next_outgoing_id + 1
                /\ remote_incoming_window' =
                     WindowAfterDelivery(remote_incoming_window, Len(parts))
                /\ outgoing_window' = WindowAfterDelivery(outgoing_window, Len(parts))
                /\ sent_okay' = sent_okay + 1
                /\ sent_split' = (sent_split \/ Len(parts) > 1)
                /\ UNCHANGED <<window_base, id_base>>
     /\ UNCHANGED <<state, handle_max, remote_channel, allow_pipelined_open,
                    next_incoming_id, incoming_window, target_incoming_window,
                    remote_outgoing_window, maps, coroutines>>

\* ----------------------------------------- _outgoing_transfer, step by step
\* _outgoing_transfer as the event loop runs it: the coroutine may be suspended
\* at each "await self._connection._process_outgoing_frame", and another
\* coroutine may run from there.  A step is the code between two awaits.

\* the frame the coroutine with locals t hands over next: the loop body when
\* remaining_payload_cnt > available_frame_size, "the last frame" otherwise;
\* delivery_id is self.next_outgoing_id as it is read then
NextTransfer(t) ==
  IF t.remaining_payload_cnt > t.available_frame_size
  THEN TransferFrame(t.handle, next_outgoing_id, TRUE,
                     Slice(Payload(t.payload_size), t.start_idx,
                           t.start_idx + t.available_frame_size))
  ELSE TransferFrame(t.handle, next_outgoing_id, FALSE,
                     Slice(Payload(t.payload_size), t.start_idx, t.payload_size))

\* the coroutine hands `frame` over and is suspended in the await
HandOver(k, t, frame) ==
  /\ tasks' = [tasks EXCEPT ![k] = [t EXCEPT !.pc = IF frame.more THEN "sending"
                                                   ELSE "last"]]
  /\ wire' = Append(wire, [delivery |-> t.delivery, frame |-> frame])

\* coroutine k enters _outgoing_transfer and runs to its first await
StartTransfer(k, handle, payload_size, transfer_overhead_size) ==
  LET size == AvailableFrameSize(transfer_overhead_size)
      o == [name |-> "start_transfer", task |-> k, handle |-> handle]
      t == [pc |-> "idle", delivery |-> started + 1, payload_size |-> payload_size,
            available_frame_size |-> size, start_idx |-> 0,
            remaining_payload_cnt |-> payload_size, handle |-> handle]
  IN /\ tasks[k].pc = "idle"
     /\ handle \in DOMAIN output_handles
     /\ linkobjs[output_handles[handle]].role = "Sender"
     /\ started < MaxSends
     /\ ~NeverEnds(payload_size, size)
     /\ IF ~Transmits(state, remote_incoming_window)
        THEN /\ Did(o, <<>>, "none", <<>>, <<>>, Refused(state, remote_incoming_window))
             /\ UNCHANGED coroutines
        ELSE /\ HandOver(k, t, NextTransfer(t))
             /\ started' = started + 1
             /\ Did(o, <<NextTransfer(t)>>, "none", <<>>, <<>>, PENDING)
     /\ UNCHANGED <<session, maps, history, suspended>>

\* coroutine k is resumed and runs to its next await, or to its return
ResumeTransfer(k) ==
  LET t == tasks[k]
      o == [name |-> "resume_transfer", task |-> k, handle |-> t.handle]
      u == [t EXCEPT !.start_idx = @ + t.available_frame_size,
                     !.remaining_payload_cnt = @ - t.available_frame_size]
  IN /\ t.pc # "idle"
     /\ IF t.pc = "sending"
        THEN /\ HandOver(k, u, NextTransfer(u))
             /\ Did(o, <<NextTransfer(u)>>, "none", <<>>, <<>>, PENDING)
             /\ UNCHANGED <<next_outgoing_id, remote_incoming_window, outgoing_window,
                            history, started>>
        ELSE /\ next_outgoing_id' = next_outgoing_id + 1
             /\ remote_incoming_window' = WindowAfterDelivery(remote_incoming_window, 1)
             /\ outgoing_window' = WindowAfterDelivery(outgoing_window, 1)
             /\ tasks' = [tasks EXCEPT ![k] = IdleTask]
             /\ Did(o, <<>>, "none", <<>>, <<>>, OKAY)
             /\ sent_okay' = sent_okay + 1
             /\ sent_split' = (sent_split \/ t.start_idx > 0)
             /\ UNCHANGED <<window_base, id_base, wire, started>>
     /\ UNCHANGED <<state, handle_max, remote_channel, allow_pipelined_open,
                    next_incoming_id, incoming_window, target_incoming_window,
                    remote_outgoing_window, maps, suspended>>

\* ---------------------------------------------------------- _incoming_transfer
\* (mutant) the window is refilled one Transfer early
WindowExhaustedEarly(window) == window <= 1

\* "if self.incoming_window == 0", after the decrement
WindowExhausted(window) == window = 0

\* (mutant) only the last frame of a delivery takes a unit of the window
WindowAfterLastFrame(window, more) == IF more THEN window ELSE window - 1

\* "self.remote_outgoing_window -= 1", "self.incoming_window -= 1": for every
\* frame, whatever its more flag
WindowAfterFrame(window, more) == window - 1

\* (mutant) the refill doubles the window
ReplenishedTwice(target) == 2 * target

\* "self.incoming_window = self.target_incoming_window"
Replenished(target) == target

\* frame = (handle, ..., more); fault: as in EndOutcome, for the end() of the
\* unattached-handle path (the faults end() catches)
IncomingTransfer(rhandle, more, fault) ==
  LET known == InputLink(rhandle) # None
      r == EndOutcome(DISCARDING, "SessionUnattachedHandle", fault)
      refill == WindowExhausted(WindowAfterFrame(incoming_window, more))
      flow == IF refill
              THEN <<FlowFrame(next_incoming_id + 1,
                               Replenished(target_incoming_window))>>
              ELSE <<>>
  IN /\ BeginReceived
     /\ next_incoming_id < PeerFirstId + 1 + MaxRecvs
     /\ fault \in (IF known THEN {"none"} ELSE EndFaults(DISCARDING) \ {"notify"})
     /\ next_incoming_id' = next_incoming_id + 1
     /\ remote_outgoing_window' = WindowAfterFrame(remote_outgoing_window, more)
     /\ incoming_window' = IF refill THEN Replenished(target_incoming_window)
                          ELSE WindowAfterFrame(incoming_window, more)
     /\ state' = IF known THEN state ELSE r.state
     /\ Happened([name |-> "incoming_transfer", handle |-> rhandle, more |-> more,
                  fault |-> fault],
                 (IF known
                  THEN CallEvents(<<<<InputLink(rhandle), "_incoming_transfer", "None">>>>)
                  ELSE <<StateEvent(DISCARDING)>> \o r.events)
                 \o FrameEvents(flow),
                 "none", <<>>, PENDING)
     /\ UNCHANGED <<handle_max, remote_channel, allow_pipelined_open, next_outgoing_id,
                    outgoing_window, target_incoming_window, remote_incoming_window,
                    maps, history, coroutines>>

\* ------------------------------------------------------- _incoming_disposition
\* self._input_handles.values(), by handle
RECURSIVE InputLinks(_)
InputLinks(hs) ==
  IF hs = <<>> THEN <<>> ELSE <<input_handles[Head(hs)]>> \o InputLinks(Tail(hs))

IncomingDisposition ==
  LET hs == Ascending(DOMAIN input_handles)
  IN /\ BeginReceived
     /\ Did([name |-> "incoming_disposition"], <<>>, "none",
            LinkCalls(InputLinks(hs), "_incoming_disposition", "None"),
            <<>>, PENDING)
     /\ UNCHANGED <<session, maps, history, coroutines>>

\* ---------------------------------------------------------------- the system
\* names the application has not used yet (a link's name defaults to a fresh uuid)
FreshNames == {n \in LinkNames : StrKey(n) \notin DOMAIN links}

\* the handle the peer gives the link of a name
PeerHandle(name) == IF name = "L1" THEN 0 ELSE 1

\* The handshake: begin and end from either side, with one link to detach.
Next ==
  \/ \E wait \in BOOLEAN : Begin(wait)
  \/ IncomingBegin(1, MaxHandle)
  \/ \E error \in {"None", "InternalError"},
        fault \in {"none", "send", "detach", "notify"} :
       End(error, fault)
  \/ IncomingEnd
  \/ \E cstate \in {"OPENED", "CLOSE_RCVD", "END"} : OnConnectionStateChange(cstate)
  \/ \E name \in FreshNames : CreateLink(name, "Sender")
  \/ IncomingAttach("L1", 0, "Receiver", FALSE)
  \/ IncomingDisposition

Spec == Init /\ [][Next]_vars

\* The links of a session: attach from either side, detach and link-level
\* frames of the peer, under every handle_max the peer's Begin may set.
NextLinks ==
  \/ state = UNMAPPED /\ Begin(TRUE)
  \/ \E hm \in {1, MaxHandle} : IncomingBegin(1, hm)
  \/ \E name \in FreshNames : CreateLink(name, "Sender")
  \/ \E name \in LinkNames, role \in Roles, verr \in BOOLEAN :
       IncomingAttach(name, PeerHandle(name), role, verr)
  \/ \E rhandle \in RemoteHandles : IncomingDetach(rhandle)
  \/ \E h \in {None} \cup RemoteHandles : IncomingFlow(None, 1, h)
  \/ IncomingDisposition

SpecLinks == InitDefault /\ [][NextLinks]_vars

\* The sending side: one sender link, every payload and frame size, the remote
\* window as the peer's Begin and Flow frames set it.
NextSend ==
  \/ \E wait \in BOOLEAN : Begin(wait)
  \/ \E w \in 0..MaxWindow : IncomingBegin(w, MaxHandle)
  \/ End("None", "none")
  \/ IncomingEnd
  \/ CreateLink("L1", "Sender")
  \/ \E w \in 0..MaxWindow : IncomingFlow(None, w, None)
  \/ \E p \in {0, 1} : IncomingFlow(p, 0, None)
  \/ \E payload_size \in 0..MaxPayload, size \in Overheads :
       OutgoingTransfer(1, payload_size, size)

SpecSend == Init /\ [][NextSend]_vars

\* The receiving side: Transfer frames of the peer on attached and unattached
\* handles.
NextRecv ==
  \/ Begin(TRUE)
  \/ IncomingBegin(1, MaxHandle)
  \/ \E error \in {"None", "InternalError"} : End(error, "none")
  \/ IncomingEnd
  \/ CreateLink("L1", "Receiver")
  \/ IncomingAttach("L1", 0, "Sender", FALSE)
  \/ \E rhandle \in RemoteHandles, more \in BOOLEAN, fault \in {"none", "detach"} :
       IncomingTransfer(rhandle, more, fault)

SpecRecv == Init /\ [][NextRecv]_vars

\* Concurrent senders: coroutines of one event loop inside _outgoing_transfer
\* at the same time, on a session with one sender link.
NextRace ==
  \/ state = UNMAPPED /\ Begin(TRUE)
  \/ state = BEGIN_SENT /\ IncomingBegin(MaxWindow, MaxHandle)
  \/ CreateLink("L1", "Sender")
  \/ \E k \in Senders, payload_size \in {1, MaxPayload}, size \in {2, 3} :
       StartTransfer(k, 1, payload_size, size)
  \/ \E k \in Senders : ResumeTransfer(k)

SpecRace == InitDefault /\ [][NextRace]_vars

\* Attach from both sides at once: the _incoming_attach of a new name is
\* suspended while its Link processes the frame, and create_*_link runs meanwhile.
NextAttach ==
  \/ state = UNMAPPED /\ Begin(TRUE)
  \/ state = BEGIN_SENT /\ IncomingBegin(1, MaxHandle)
  \/ \E name \in FreshNames, role \in Roles : CreateLink(name, role)
  \/ \E name \in LinkNames, role \in Roles :
       AttachAllocate(name, PeerHandle(name), role)
  \/ AttachRegister
  \/ IncomingDisposition

SpecAttach == InitDefault /\ [][NextAttach]_vars

\* Teardown with a wait: end() polls the connection until the peer's End has
\* made the session UNMAPPED or the time is up.
NextTeardown ==
  \/ ender.pc = "idle" /\ state = UNMAPPED /\ Begin(TRUE)
  \/ state = BEGIN_SENT /\ IncomingBegin(1, MaxHandle)
  \/ ender.pc = "idle" /\ (\E name \in FreshNames : CreateLink(name, "Sender"))
  \/ \E error \in {"None", "InternalError"}, bounded \in BOOLEAN, wait \in 0..MaxWait,
        fault \in {"none", "send"}, answers \in BOOLEAN :
       EndWait(error, bounded, wait, fault, answers)
  \/ PeerEnd
  \/ Listen
  \/ Sleep
  \/ EndReturns

\* the event loop resumes a coroutine whose await has completed, and a peer that
\* answers does so in the end
Fairness == WF_vars(Listen) /\ WF_vars(Sleep) /\ WF_vars(PeerEnd)

SpecTeardown == Init /\ [][NextTeardown]_vars /\ Fairness

\* ================================================================== claims
IsSend == op.name = "outgoing_transfer"

Ceil(n, d) == (n + d - 1) \div d

\* the payloads of a sequence of frames, joined in order
RECURSIVE Joined(_)
Joined(frames) ==
  IF frames = <<>> THEN <<>> ELSE Head(frames).payload \o Joined(Tail(frames))

\* C1: after N _outgoing_transfer calls that ended OKAY since the peer last set
\* the window (Begin or Flow), remote_incoming_window is N below the value the
\* peer set and next_outgoing_id is N above its value then, however many
\* Transfer frames the deliveries took.
C1_WindowInvariant ==
  /\ remote_incoming_window = window_base - sent_okay
  /\ next_outgoing_id = id_base + sent_okay

\* two deliveries sent in a row, one of them in several frames
C1_Witness == sent_okay >= 2 /\ sent_split

\* the shape of the frames of a successful send of S bytes at frame size A,
\* n frames in all: all Transfers of one delivery_id (next_outgoing_id when the
\* send started), more set on all but the last, A bytes in each but the last
FragmentShape(n) ==
  LET S == Len(op.payload)
      A == op.available_frame_size
  IN /\ Len(out) = n
     /\ \A i \in 1..Len(out) :
          /\ out[i].type = "transfer"
          /\ out[i].more = (i < Len(out))
          /\ out[i].delivery_id = next_outgoing_id - 1
          /\ Len(out[i].payload) = IF i < Len(out) THEN A ELSE S - (Len(out) - 1) * A

\* C2 (as amended): a successful send of S >= 1 bytes at frame size A >= 1 hands
\* ceil(S/A) Transfer frames to the connection, and a send of an empty payload
\* hands over one (empty) frame; more is set on every frame but the last and all
\* carry the delivery_id the send started with.
C2_Fragmentation ==
  (IsSend /\ transfer_state = OKAY /\ op.available_frame_size >= 1) =>
    FragmentShape(IF Len(op.payload) = 0 THEN 1
                  ELSE Ceil(Len(op.payload), op.available_frame_size))

\* C2 as claimed: ceil(S/A) frames for every S >= 0
C2_AsClaimed ==
  (IsSend /\ transfer_state = OKAY /\ op.available_frame_size >= 1) =>
    FragmentShape(Ceil(Len(op.payload), op.available_frame_size))

\* a payload of three bytes sent one byte a frame
C2_Witness ==
  /\ IsSend /\ transfer_state = OKAY
  /\ op.available_frame_size = 1 /\ Len(op.payload) = 3 /\ Len(out) = 3

\* C3: the payloads of the frames of a successful send, joined in the order the
\* frames were handed over, are the delivery's payload.
C3_RoundTrip ==
  (IsSend /\ transfer_state = OKAY /\ op.available_frame_size >= 1) =>
    Joined(out) = op.payload

\* a payload that does not fit one frame, and whose last frame is not full
C3_Witness ==
  /\ IsSend /\ transfer_state = OKAY
  /\ op.available_frame_size = 2 /\ Len(op.payload) = 3 /\ Len(out) = 2
  /\ Joined(out) = <<1, 2, 3>>

\* C4 as claimed: an _outgoing_transfer on a session that is not MAPPED ends
\* ERROR, hands no frame over and leaves next_outgoing_id and both windows alone.
C4_NotMappedIsError ==
  [][(op'.name = "outgoing_transfer" /\ state # MAPPED) =>
       /\ transfer_state' = ERROR
       /\ out' = <<>>
       /\ UNCHANGED <<next_outgoing_id, remote_incoming_window, outgoing_window>>]_vars

\* C5: an _outgoing_transfer on a MAPPED session whose remote_incoming_window is
\* not positive ends BUSY without raising, hands no frame over and leaves
\* next_outgoing_id and both windows alone.
C5_Backpressure ==
  [][(op'.name = "outgoing_transfer" /\ state = MAPPED /\ remote_incoming_window <= 0) =>
       /\ transfer_state' = BUSY
       /\ out' = <<>>
       /\ raised' = "none"
       /\ UNCHANGED <<next_outgoing_id, remote_incoming_window, outgoing_window>>]_vars

\* a send refused on a MAPPED session whose remote window is used up
C5_Witness ==
  /\ IsSend /\ state = MAPPED /\ remote_incoming_window = 0
  /\ sent_okay >= 1 /\ transfer_state = BUSY

\* the Flow frames among the frames handed to the connection
FlowsOf(frames) == SelectSeq(frames, LAMBDA f : f.type = "flow")

\* C6: an _incoming_transfer that brings incoming_window to 0 resets it to
\* target_incoming_window and hands exactly one Flow frame to the connection,
\* whose incoming_window field is target_incoming_window; any other
\* _incoming_transfer hands over no Flow frame.
C6_Replenishment ==
  [][op'.name = "incoming_transfer" =>
       IF incoming_window - 1 = 0
       THEN /\ incoming_window' = target_incoming_window
            /\ Len(FlowsOf(out')) = 1
            /\ FlowsOf(out')[1].incoming_window = target_incoming_window
       ELSE /\ incoming_window' = incoming_window - 1
            /\ FlowsOf(out') = <<>>]_vars

\* a Transfer on an attached link used up a window of several frames
C6_Witness ==
  /\ op.name = "incoming_transfer" /\ op.handle \in DOMAIN input_handles
  /\ target_incoming_window = MaxWindow
  /\ incoming_window = target_incoming_window
  /\ Len(FlowsOf(out)) = 1 /\ FlowsOf(out)[1].incoming_window = MaxWindow

\* C7 as claimed: an Attach of the peer for a link the session does not know,
\* arriving when no local handle can be allocated, has that link detached with
\* LinkDetachForced, does not raise and leaves both handle maps alone.
C7_ExhaustionDetaches ==
  [][(/\ op'.name = "incoming_attach"
      /\ StrKey(op'.link) \notin DOMAIN links
      /\ GetNextOutputHandle.exc # "none") =>
       /\ raised' = "none"
       /\ \E i \in 1..Len(calls') :
            calls'[i][2] = "detach" /\ calls'[i][3] = "LinkDetachForced"
       /\ UNCHANGED <<output_handles, input_handles>>]_vars

C9_UnattachedTransferEnds ==
  (op.name = "incoming_transfer" /\ op.handle \notin DOMAIN input_handles) =>
    /\ state = DISCARDING
    /\ \/ \E i \in 1..Len(out) :
            out[i].type = "end" /\ out[i].error = "SessionUnattachedHandle"
       \/ \E i \in 1..Len(closes) : closes[i] = "SessionUnattachedHandle"

\* C10: after a Detach frame on a handle that is not a key of _input_handles
\* the session is DISCARDING, the connection's close has been requested exactly
\* once, with SessionUnattachedHandle, and no call was made on a Link.
C10_UnknownDetach ==
  (op.name = "incoming_detach" /\ op.handle \notin DOMAIN input_handles) =>
    /\ state = DISCARDING
    /\ closes = <<"SessionUnattachedHandle">>
    /\ calls = <<>>
    /\ raised = "none"

\* a Detach on an unknown handle while another handle has a link attached
C10_Witness ==
  /\ op.name = "incoming_detach" /\ op.handle \notin DOMAIN input_handles
  /\ DOMAIN input_handles # {} /\ DOMAIN output_handles # {}
  /\ state = DISCARDING /\ closes = <<"SessionUnattachedHandle">>

\* C11: begin(wait) with a falsy wait raises ValueError from the call when
\* allow_pipelined_open is False, and returns without error when it is True.
C11_PipelinedOpen ==
  (op.name = "begin" /\ ~op.wait) =>
    raised = IF allow_pipelined_open THEN "none" ELSE "ValueError"

\* begin(wait=False) was refused on a session that forbids pipelined open
C11_Witness ==
  /\ op.name = "begin" /\ ~op.wait /\ ~allow_pipelined_open
  /\ raised = "ValueError"

\* C12 as claimed: when begin(wait=True) has returned normally the session is
\* MAPPED, never still BEGIN_SENT.
C12_BeginWaits ==
  (op.name = "begin" /\ op.wait /\ raised = "none") => state = MAPPED

\* C13 as claimed: an end() in which a step raised returns without raising and
\* leaves the session UNMAPPED.
C13_UnconditionalTeardown ==
  (op.name = "end" /\ op.fault # "none") => (raised = "none" /\ state = UNMAPPED)

\* the integers of [1, handle_max) that are not keys of _output_handles
Unassigned == {i \in 1..(handle_max - 1) : i \notin DOMAIN output_handles}

\* C14: a create_*_link or a peer's Attach that registers a link gives it the
\* smallest integer of [1, handle_max) that is not a key of _output_handles:
\* never 0, and 1 when the session holds no link yet.
C14_SmallestFreeHandle ==
  [][(/\ op'.name \in {"create_link", "incoming_attach"}
      /\ DOMAIN output_handles' # DOMAIN output_handles) =>
       \E h \in Unassigned :
         /\ DOMAIN output_handles' = DOMAIN output_handles \cup {h}
         /\ \A i \in Unassigned : h <= i
         /\ h # 0
         /\ DOMAIN output_handles = {} => h = 1
         /\ linkobjs'[output_handles'[h]].handle = h]_vars

\* the peer's Attach created the session's second link, on handle 2
C14_Witness ==
  /\ op.name = "incoming_attach" /\ raised = "none"
  /\ DOMAIN output_handles = {1, 2}
  /\ output_handles[2] = Len(linkobjs) /\ linkobjs[Len(linkobjs)].handle = 2

\* C15 as claimed: create_*_link raises ValueError when no integer of
\* [1, handle_max) is free, and returns a handle in every other state.
C15_ExhaustionIsValueError ==
  [][op'.name = "create_link" =>
       raised' = IF Unassigned = {} THEN "ValueError" ELSE "none"]_vars

\* the changes of Session.state C16 lists, a handler's passage through
\* BEGIN_RCVD or END_RCVD taken as the two listed changes it is made of
ListedChanges ==
  {<<UNMAPPED, BEGIN_SENT>>, <<BEGIN_SENT, MAPPED>>, <<UNMAPPED, BEGIN_RCVD>>,
   <<BEGIN_RCVD, MAPPED>>, <<UNMAPPED, MAPPED>>, <<MAPPED, END_SENT>>,
   <<END_SENT, UNMAPPED>>, <<END_RCVD, UNMAPPED>>, <<DISCARDING, UNMAPPED>>}
  \cup {<<s, END_RCVD>> : s \in {UNMAPPED, BEGIN_SENT, BEGIN_RCVD, MAPPED, END_SENT, DISCARDING}}
  \cup {<<s, UNMAPPED>> : s \in {BEGIN_SENT, BEGIN_RCVD, MAPPED}}
  \cup {<<s, DISCARDING>> : s \in {BEGIN_SENT, BEGIN_RCVD, MAPPED, END_SENT, END_RCVD}}

\* C16 as claimed: every change of Session.state is one of the listed changes;
\* in particular the state never goes from UNMAPPED to END_SENT or DISCARDING,
\* nor from MAPPED to BEGIN_SENT.
C16_ListedChangesOnly ==
  [][state' # state => <<state, state'>> \in ListedChanges]_vars

\* C18 as claimed: every key of _output_handles is at least 1 and below the
\* current handle_max, and no two Links have the same local handle.
C18_HandleBound ==
  /\ \A h \in DOMAIN output_handles : 1 <= h /\ h < handle_max
  /\ \A i, j \in 1..Len(linkobjs) : linkobjs[i].handle = linkobjs[j].handle => i = j

\* the Links the session holds in one of its three maps
Held == Values(links) \cup Values(output_handles) \cup Values(input_handles)

\* C19 as claimed: a Link that is closed, an incoming Detach for it having been
\* processed, is in none of links, _output_handles and _input_handles.
C19_ClosedLinkNotHeld ==
  \A l \in 1..Len(linkobjs) : linkobjs[l].closed => l \notin Held

\* C20 as claimed: after a Begin of the peer handle_max, next_incoming_id and
\* the remote windows are the frame's; from BEGIN_SENT remote_channel is the
\* frame's, the state is MAPPED and no frame was sent; from UNMAPPED the state
\* is MAPPED and exactly one Begin was sent, whose remote_channel is set.
C20_ReceivingBegin ==
  [][op'.name = "incoming_begin" =>
       /\ handle_max' = op'.frame.handle_max
       /\ next_incoming_id' = op'.frame.next_outgoing_id
       /\ remote_incoming_window' = op'.frame.incoming_window
       /\ remote_outgoing_window' = op'.frame.outgoing_window
       /\ state = BEGIN_SENT =>
            /\ remote_channel' = op'.frame.remote_channel
            /\ state' = MAPPED
            /\ out' = <<>>
       /\ state = UNMAPPED =>
            /\ state' = MAPPED
            /\ Len(out') = 1
            /\ out'[1].type = "begin"
            /\ out'[1].remote_channel # None]_vars

\* C17 as claimed: however the _outgoing_transfer coroutines interleave, two
\* frames of different deliveries never carry the same delivery_id, and a
\* delivery whose send started earlier carries the smaller delivery_id.
C17_UniqueDeliveryIds ==
  \A i, j \in 1..Len(wire) :
    /\ wire[i].delivery # wire[j].delivery =>
         wire[i].frame.delivery_id # wire[j].frame.delivery_id
    /\ wire[i].delivery < wire[j].delivery =>
         wire[i].frame.delivery_id < wire[j].frame.delivery_id

\* C21: an End of the peer received in a state other than END_RCVD, END_SENT
\* and DISCARDING makes the session, in this order, set END_RCVD, detach every
\* link of links, hand over exactly one End frame and set UNMAPPED; received in
\* one of those three states it only sets UNMAPPED.
C21_ReceivingEnd ==
  [][op'.name = "incoming_end" =>
       /\ state' = UNMAPPED
       /\ raised' = "none"
       /\ IF state \notin {END_RCVD, END_SENT, DISCARDING}
          THEN LET n == Len(events')
               IN /\ n = Cardinality(Values(links)) + 3
                  /\ events'[1] = <<"state", END_RCVD>>
                  /\ \A l \in Values(links) : \E i \in 2..(n - 2) :
                       events'[i][1] = "call" /\ events'[i][2] = <<l, "detach", "None">>
                  /\ events'[n - 1][1] = "frame"
                  /\ events'[n - 1][2] = [type |-> "end", error |-> "None"]
                  /\ events'[n] = <<"state", UNMAPPED>>
          ELSE events' = <<<<"state", UNMAPPED>>>>]_vars

\* the peer ended a MAPPED session that holds links
C21_Witness ==
  /\ op.name = "incoming_end" /\ op.from = MAPPED /\ state = UNMAPPED
  /\ Len(calls) >= 1 /\ Len(out) = 1 /\ out[1].type = "end"

\* C22 as claimed: in an end() called in a state other than UNMAPPED and
\* DISCARDING no link is detached after the End frame has been handed over.
C22_DetachBeforeEnd ==
  (op.name = "end" /\ op.from \notin {UNMAPPED, DISCARDING}) =>
    \A i, j \in 1..Len(events) :
      (i < j /\ events[i][1] = "frame" /\ events[i][2].type = "end") =>
        ~(events[j][1] = "call" /\ events[j][2][2] = "detach")

\* C23: an end(error) in which nothing raises hands over exactly one End frame,
\* carrying the error, when the state is not UNMAPPED or DISCARDING, and no
\* frame otherwise; it leaves the state DISCARDING when an error was given and
\* END_SENT when not.
C23_EndEffect ==
  [][(op'.name = "end" /\ op'.fault = "none") =>
       /\ raised' = "none"
       /\ out' = IF state \notin {UNMAPPED, DISCARDING}
                 THEN <<[type |-> "end", error |-> op'.error]>> ELSE <<>>
       /\ state' = IF op'.error # "None" THEN DISCARDING ELSE END_SENT]_vars

\* a MAPPED session was ended with an error
C23_Witness ==
  /\ op.name = "end" /\ op.fault = "none" /\ op.error = "InternalError"
  /\ op.from = MAPPED /\ state = DISCARDING
  /\ Len(out) = 1 /\ out[1].type = "end" /\ out[1].error = "InternalError"

\* C24 as claimed: outgoing_window is never negative.
C24_OutgoingWindowNonNegative == outgoing_window >= 0

\* C25 as claimed: every _outgoing_transfer returns, with transfer_state set to
\* OKAY, BUSY or ERROR.
C25_FragmentationTerminates ==
  IsSend => raised = "none" /\ transfer_state \in {OKAY, BUSY, ERROR}

\* C26 as claimed: an end() on an UNMAPPED session hands no frame to the
\* connection and leaves the state UNMAPPED.
C26_UnmappedStable ==
  [][(op'.name = "end" /\ state = UNMAPPED) =>
       out' = <<>> /\ state' = UNMAPPED]_vars

\* C27 as claimed: from the session becoming MAPPED until it is next UNMAPPED at
\* most one End frame is handed to the connection.
C27_OneEndPerMapping == ends_sent <= 1

\* C28 as claimed: a Flow with next_incoming_id p (None when absent),
\* incoming_window w, next_outgoing_id q and outgoing_window v leaves
\* remote_incoming_window = (p when present, else next_outgoing_id) + w -
\* next_outgoing_id, next_incoming_id = q and remote_outgoing_window = v.
C28_FlowArithmetic ==
  [][op'.name = "incoming_flow" =>
       LET frame == op'.frame
           p == IF frame.next_incoming_id # None
                THEN frame.next_incoming_id ELSE next_outgoing_id
       IN /\ remote_incoming_window' = p + frame.incoming_window - next_outgoing_id
          /\ next_incoming_id' = frame.next_outgoing_id
          /\ remote_outgoing_window' = frame.outgoing_window]_vars

\* the Links a call sequence was made on
Called(lc) == {lc[i][1] : i \in 1..Len(lc)}

\* the open sending Links of the session
OpenSenders ==
  {l \in Values(links) \cup Values(output_handles) :
     linkobjs[l].role = "Sender" /\ ~linkobjs[l].closed}

\* C29 as claimed: a Flow with the handle of an attached Link is forwarded to
\* that Link alone; a Flow without a handle is forwarded to every open sending
\* Link and to no other Link when the recomputed remote_incoming_window is
\* positive, and to no Link when it is not.
C29_FlowRouting ==
  [][op'.name = "incoming_flow" =>
       IF op'.frame.handle # None
       THEN InputLink(op'.frame.handle) # None =>
              calls' = <<<<InputLink(op'.frame.handle), "_incoming_flow", "None">>>>
       ELSE Called(calls') =
              IF remote_incoming_window' > 0 THEN OpenSenders ELSE {}]_vars

C31_AttachErrorIsolated ==
  [][(op'.name = "incoming_attach" /\ op'.verr /\ calls' # <<>>) =>
       /\ raised' = "none"
       /\ state' = state
       /\ calls' = <<<<calls'[1][1], "_incoming_attach", "None">>,
                     <<calls'[1][1], "detach", "None">>>>]_vars

\* C33 as claimed: a Flow whose handle no Link is attached under updates the
\* session's fields, raises nothing, calls no Link and leaves the state.
C33_UnknownFlowHandle ==
  [][(/\ op'.name = "incoming_flow"
      /\ op'.frame.handle # None
      /\ InputLink(op'.frame.handle) = None) =>
       /\ raised' = "none"
       /\ calls' = <<>>
       /\ state' = state
       /\ next_incoming_id' = op'.frame.next_outgoing_id
       /\ remote_outgoing_window' = op'.frame.outgoing_window]_vars

\* C34: every incoming Transfer, whatever its more flag and its handle, adds 1
\* to next_incoming_id and takes 1 from remote_outgoing_window and from
\* incoming_window (which is then refilled when it reached 0); with a handle a
\* Link is attached under, that Link and no other is called.
C34_TransferAccounting ==
  [][op'.name = "incoming_transfer" =>
       /\ next_incoming_id' = next_incoming_id + 1
       /\ remote_outgoing_window' = remote_outgoing_window - 1
       /\ incoming_window' = (IF incoming_window - 1 = 0
                              THEN target_incoming_window ELSE incoming_window - 1)
       /\ InputLink(op'.handle) # None =>
            calls' = <<<<InputLink(op'.handle), "_incoming_transfer", "None">>>>]_vars

\* a frame with more set arrived for an attached Link, and no refill followed
C34_Witness ==
  /\ op.name = "incoming_transfer" /\ op.more
  /\ calls # <<>> /\ calls[1][2] = "_incoming_transfer"
  /\ out = <<>>
  /\ incoming_window = target_incoming_window - 1
  /\ next_incoming_id > PeerFirstId

\* C35 as claimed: an Attach that carries the name of a Link created from an
\* earlier Attach of the peer is routed to that Link; no Link is constructed
\* and no handle allocated.
C35_UniqueLinkNames ==
  [][(op'.name = "incoming_attach" /\ BytesKey(op'.link) \in DOMAIN links) =>
       /\ linkobjs' = linkobjs
       /\ output_handles' = output_handles
       /\ calls' # <<>>
       /\ calls'[1] = <<links[BytesKey(op'.link)], "_incoming_attach", "None">>]_vars

\* C36: after every incoming Transfer that was processed completely,
\* 1 <= incoming_window <= target_incoming_window.
C36_IncomingWindowBounds ==
  (op.name = "incoming_transfer" /\ raised = "none") =>
    (1 <= incoming_window /\ incoming_window <= target_incoming_window)

\* the window was exhausted and refilled by a second Transfer
C36_Witness ==
  /\ op.name = "incoming_transfer" /\ raised = "none"
  /\ target_incoming_window = MaxWindow
  /\ incoming_window = target_incoming_window
  /\ Len(out) >= 1 /\ out[Len(out)].type = "flow"

\* C38 as claimed: a begin() that fails with the pipelined-open error has
\* handed no Begin frame over and left the state UNMAPPED.
C38_FailedBeginNoEffect ==
  (op.name = "begin" /\ raised = "ValueError") => (out = <<>> /\ state = UNMAPPED)

\* C37: whenever the state is MAPPED the session has handed a Begin frame to
\* the connection, has processed a Begin of the peer, and next_incoming_id is set.
C37_MappedAfterHandshake ==
  state = MAPPED => (begin_sent /\ begin_rcvd /\ next_incoming_id # None)

\* the peer opened the session and its Begin was answered
C37_Witness ==
  /\ state = MAPPED /\ op.name = "incoming_begin"
  /\ Len(out) = 1 /\ out[1].type = "begin"
  /\ begin_sent /\ begin_rcvd /\ next_incoming_id = PeerFirstId

\* C32 as claimed: however a suspended _incoming_attach interleaves with
\* create_*_link, no two Links have the same local handle.
C32_AtomicAllocation ==
  \A i, j \in 1..Len(linkobjs) :
    i # j => linkobjs[i].handle # linkobjs[j].handle

\* C39: an end(wait=True) on a MAPPED session whose End the peer answers
\* returns in the end, the state being UNMAPPED; an end() with a number of
\* seconds to wait returns in the end, whether or not the peer answers.
C39_TeardownLiveness ==
  /\ (ender.pc = "listen" /\ ~ender.bounded /\ ender.from = MAPPED /\ peer = "asked")
       ~> (ender.pc = "returned" /\ state = UNMAPPED)
  /\ (ender.pc = "listen" /\ ender.bounded) ~> (ender.pc = "returned")

\* an end(wait=True) on a MAPPED session returned after the poll delivered
\* the peer's End
C39_Witness ==
  /\ ender.pc = "returned" /\ ~ender.bounded /\ ender.from = MAPPED
  /\ peer = "answered" /\ inbound = 0
  /\ op.name = "incoming_end" /\ state = UNMAPPED /\ clock > 0

====
